---------------------------- MODULE Spec2Model ----------------------------
(***************************************************************************)
(* Ethiopian Bible Planner (scripts/bible-planner.js): the planner's state *)
(* record, its debounced write-back to the key-value store, the            *)
(* StorageManager wrapper, the import path and the static content data.    *)
(*                                                                         *)
(* JavaScript values are tagged records: [t |-> "boolean", b |-> TRUE],     *)
(* [t |-> "string", s |-> "x"], [t |-> "object", o |-> entries], ...;      *)
(* objects keep their entries in insertion order, as JavaScript does.      *)
(* Text (JSON, reading identifiers) is a string of characters.             *)
(***************************************************************************)
EXTENDS Integers, Sequences, FiniteSets, TLC

(***************************************************************************)
(* JavaScript values                                                       *)
(***************************************************************************)
JUndefined == [t |-> "undefined"]
JNull == [t |-> "null"]
JBool(b) == [t |-> "boolean", b |-> b]
JNum(n) == [t |-> "number", n |-> n]
JStr(s) == [t |-> "string", s |-> s]
JObj(entries) == [t |-> "object", o |-> entries]
JFun(name) == [t |-> "function", f |-> name]

\* ToBoolean: what `!x`, `x || y` and `if (x)` look at
Truthy(x) ==
    CASE x.t = "boolean" -> x.b
      [] x.t = "number" -> x.n # 0
      [] x.t = "string" -> x.s # ""
      [] x.t \in {"undefined", "null"} -> FALSE
      [] OTHER -> TRUE

\* typeof x
TypeOf(x) ==
    CASE x.t = "null" -> "object"
      [] OTHER -> x.t

\* own enumerable keys of an object, as a set
OwnKeys(o) == IF o.t = "object" THEN {o.o[i].k : i \in DOMAIN o.o} ELSE {}

HasOwn(o, key) == key \in OwnKeys(o)

\* o[key] on an object without inherited properties of that name
GetProp(o, key) ==
    IF HasOwn(o, key)
    THEN o.o[CHOOSE i \in DOMAIN o.o : o.o[i].k = key].v
    ELSE JUndefined

\* entries after `o[key] = val`: an existing key keeps its place
PutEntry(entries, key, val) ==
    IF \E i \in DOMAIN entries : entries[i].k = key
    THEN [i \in DOMAIN entries |->
            IF entries[i].k = key THEN [k |-> key, v |-> val] ELSE entries[i]]
    ELSE Append(entries, [k |-> key, v |-> val])

\* entries after `delete o[key]`
RECURSIVE DeleteEntry(_, _)
DeleteEntry(entries, key) ==
    IF entries = <<>> THEN <<>>
    ELSE IF Head(entries).k = key THEN DeleteEntry(Tail(entries), key)
    ELSE <<Head(entries)>> \o DeleteEntry(Tail(entries), key)

RECURSIVE PutAll(_, _)
PutAll(entries, more) ==
    IF more = <<>> THEN entries
    ELSE PutAll(PutEntry(entries, Head(more).k, Head(more).v), Tail(more))

RECURSIVE StringEntries(_, _)
StringEntries(s, i) ==
    IF i > Len(s) THEN <<>>
    ELSE <<[k |-> ToString(i - 1), v |-> JStr(SubSeq(s, i, i))]>> \o StringEntries(s, i + 1)

\* the own enumerable properties `...x` copies
SpreadEntries(x) ==
    CASE x.t = "object" -> x.o
      [] x.t = "string" -> StringEntries(x.s, 1)
      [] OTHER -> <<>>

\* { ...a, ...b }
ObjectSpread(a, b) == JObj(PutAll(SpreadEntries(a), SpreadEntries(b)))

(***************************************************************************)
(* JSON.stringify and JSON.parse                                           *)
(***************************************************************************)
\* the characters JSON.stringify writes with a backslash
Escaped == {"\"", "\\"}

RECURSIVE EscapeChars(_)
EscapeChars(s) ==
    IF s = "" THEN ""
    ELSE (IF SubSeq(s, 1, 1) \in Escaped THEN "\\" ELSE "") \o SubSeq(s, 1, 1)
            \o EscapeChars(Tail(s))

EscapeString(s) ==
    IF \E i \in 1..Len(s) : SubSeq(s, i, i) \in Escaped THEN EscapeChars(s) ELSE s

QuoteString(s) == "\"" \o EscapeString(s) \o "\""

RECURSIVE JSONStringify(_)
RECURSIVE StringifyMembers(_)
StringifyMembers(entries) ==
    IF entries = <<>> THEN ""
    ELSE QuoteString(Head(entries).k) \o ":" \o JSONStringify(Head(entries).v)
            \o (IF Tail(entries) = <<>> THEN "" ELSE "," \o StringifyMembers(Tail(entries)))

JSONStringify(x) ==
    CASE x.t = "boolean" -> IF x.b THEN "true" ELSE "false"
      [] x.t = "number" -> ToString(x.n)
      [] x.t = "string" -> QuoteString(x.s)
      [] x.t = "object" -> "{" \o StringifyMembers(x.o) \o "}"
      [] OTHER -> "null"

CharAt(s, i) == IF i >= 1 /\ i <= Len(s) THEN SubSeq(s, i, i) ELSE ""

StartsWithAt(s, i, word) ==
    /\ i >= 1
    /\ i + Len(word) - 1 <= Len(s)
    /\ SubSeq(s, i, i + Len(word) - 1) = word

RECURSIVE SkipWhitespace(_, _)
SkipWhitespace(s, i) ==
    IF CharAt(s, i) \in {" ", "\n"} THEN SkipWhitespace(s, i + 1) ELSE i

ParseFail == [ok |-> FALSE, val |-> JNull, pos |-> 0]
ParseOk(val, pos) == [ok |-> TRUE, val |-> val, pos |-> pos]

Digits == {"0", "1", "2", "3", "4", "5", "6", "7", "8", "9"}
DigitValue(c) == CHOOSE d \in 0..9 : ToString(d) = c

RECURSIVE ParseStringBody(_, _, _)
ParseStringBody(s, i, acc) ==
    LET c == CharAt(s, i) IN
    IF c = "" THEN ParseFail
    ELSE IF c = "\"" THEN ParseOk(JStr(acc), i + 1)
    ELSE IF c = "\\"
         THEN IF CharAt(s, i + 1) \in {"\"", "\\"}
              THEN ParseStringBody(s, i + 2, acc \o CharAt(s, i + 1))
              ELSE ParseFail
    ELSE ParseStringBody(s, i + 1, acc \o c)

RECURSIVE ParseDigits(_, _, _)
ParseDigits(s, i, acc) ==
    IF CharAt(s, i) \in Digits
    THEN ParseDigits(s, i + 1, acc * 10 + DigitValue(CharAt(s, i)))
    ELSE ParseOk(JNum(acc), i)

RECURSIVE ParseValue(_, _)
RECURSIVE ParseMembers(_, _, _)
ParseMembers(s, i0, acc) ==
    LET i == SkipWhitespace(s, i0) IN
    IF CharAt(s, i) # "\"" THEN ParseFail
    ELSE LET key == ParseStringBody(s, i + 1, "") IN
         IF ~key.ok THEN ParseFail
         ELSE LET j == SkipWhitespace(s, key.pos) IN
              IF CharAt(s, j) # ":" THEN ParseFail
              ELSE LET val == ParseValue(s, j + 1) IN
                   IF ~val.ok THEN ParseFail
                   ELSE LET n == SkipWhitespace(s, val.pos)
                            more == PutEntry(acc, key.val.s, val.val)
                        IN CASE CharAt(s, n) = "," -> ParseMembers(s, n + 1, more)
                             [] CharAt(s, n) = "}" -> ParseOk(JObj(more), n + 1)
                             [] OTHER -> ParseFail

ParseValue(s, i0) ==
    LET i == SkipWhitespace(s, i0)
        c == CharAt(s, i)
    IN CASE c = "{" ->
              IF CharAt(s, SkipWhitespace(s, i + 1)) = "}"
              THEN ParseOk(JObj(<<>>), SkipWhitespace(s, i + 1) + 1)
              ELSE ParseMembers(s, i + 1, <<>>)
         [] c = "\"" -> ParseStringBody(s, i + 1, "")
         [] c = "t" -> IF StartsWithAt(s, i, "true") THEN ParseOk(JBool(TRUE), i + 4) ELSE ParseFail
         [] c = "f" -> IF StartsWithAt(s, i, "false") THEN ParseOk(JBool(FALSE), i + 5) ELSE ParseFail
         [] c = "n" -> IF StartsWithAt(s, i, "null") THEN ParseOk(JNull, i + 4) ELSE ParseFail
         [] c \in Digits -> ParseDigits(s, i, 0)
         [] OTHER -> ParseFail

\* JSON.parse(text): ok = FALSE stands for the SyntaxError it throws
JSONParse(text) ==
    LET r == ParseValue(text, 1) IN
    IF r.ok /\ SkipWhitespace(text, r.pos) = Len(text) + 1
    THEN [ok |-> TRUE, val |-> r.val]
    ELSE [ok |-> FALSE, val |-> JNull]


(***************************************************************************)
(* State                                                                   *)
(***************************************************************************)
VARIABLES
    useNativeStorage,   \* StorageManager.useNativeStorage
    memoryStorage,      \* StorageManager.memoryStorage, a plain object
    nativeStore,        \* window.storage: key -> stored text
    storage,            \* EthiopianBiblePlanner.storage (null once destroyed)
    state,              \* EthiopianBiblePlanner.state
    saveDebounceTimer,  \* the timer handle and the timeout behind it
    touchStartX,
    touchEndX,
    ethiopianMonths,
    holyDays,
    ministryEvents,
    chronologicalPlan,
    ntIntensive,
    discipleshipWeeks,
    message,            \* the message UIManager shows
    listeners,          \* click, keydown and touch listeners are installed
    pc,                 \* where the page is: "loadState", "setup", "ready", "unloaded"
    lastCall,           \* history: the last StorageManager call and its result
    expected,           \* history: key -> what set/delete left there
    storeReads,         \* history: StorageManager.get calls made by the planner
    readFault,          \* history: the store failed the read of loadState
    lastWrite,          \* history: the last StorageManager.set made by the planner
    lastMutation,       \* history: the state as the last setState left it
    sinceCall,          \* history: ms since the last setState (saturating)
    burstCalls,         \* history: setState calls less than the wait apart, so far
    ops,                \* history: user events handled so far
    savedRecord,        \* history: the record the store held at startup
    probe,              \* the pair of reading units whose identifiers are built
    microtasks,         \* continuations of async calls, queued behind their await
    exported,           \* the file exportProgress handed over, and where it came from
    overlap             \* history: the calls started in the task now running

storeVars == <<useNativeStorage, memoryStorage, nativeStore>>
contentVars ==
    <<ethiopianMonths, holyDays, ministryEvents, chronologicalPlan, ntIntensive,
      discipleshipWeeks>>
plannerVars == <<storage, state, saveDebounceTimer, touchStartX, touchEndX, message,
                 listeners, pc>>
storeHistory == <<lastCall, expected>>
plannerHistory ==
    <<storeReads, readFault, lastWrite, lastMutation, sinceCall, burstCalls, ops, savedRecord>>
asyncVars == <<microtasks, exported, overlap>>
vars ==
    <<storeVars, contentVars, plannerVars, storeHistory, plannerHistory, probe, asyncVars>>

(***************************************************************************)
(* StorageManager                                                          *)
(***************************************************************************)
StateKey == "bible-planner-state"
ClearPrefix == "bible-planner-"

\* property names every plain object inherits from Object.prototype
ObjectPrototypeKeys ==
    {"constructor", "hasOwnProperty", "isPrototypeOf", "propertyIsEnumerable",
     "toLocaleString", "toString", "valueOf"}

\* this.memoryStorage[key]
MemoryLookup(mem, key) ==
    IF HasOwn(mem, key) THEN GetProp(mem, key)
    ELSE IF key \in ObjectPrototypeKeys THEN JFun(key)
    ELSE JUndefined

\* StorageManager.get(key, defaultValue); fault: window.storage.get throws
\* or yields nothing
StorageGet(native, mem, store, key, defaultValue, fault) ==
    IF native
    THEN IF fault \/ key \notin DOMAIN store THEN defaultValue
         ELSE LET parsed == JSONParse(store[key]) IN
              IF parsed.ok THEN parsed.val ELSE defaultValue
    ELSE IF MemoryLookup(mem, key) # JUndefined THEN MemoryLookup(mem, key)
         ELSE defaultValue

\* StorageManager.set(key, value): [ok, mem, store]; fault: window.storage.set
\* throws or returns null
StorageSet(native, mem, store, key, value, fault) ==
    LET data == JSONStringify(value) IN
    IF native
    THEN IF fault THEN [ok |-> FALSE, mem |-> mem, store |-> store]
         ELSE [ok |-> TRUE, mem |-> mem,
               store |-> [k \in DOMAIN store \cup {key} |->
                            IF k = key THEN data ELSE store[k]]]
    ELSE [ok |-> TRUE, mem |-> JObj(PutEntry(mem.o, key, value)), store |-> store]

\* StorageManager.delete(key)
StorageDelete(native, mem, store, key, fault) ==
    IF native
    THEN IF fault THEN [ok |-> FALSE, mem |-> mem, store |-> store]
         ELSE [ok |-> TRUE, mem |-> mem,
               store |-> [k \in DOMAIN store \ {key} |-> store[k]]]
    ELSE [ok |-> TRUE, mem |-> JObj(DeleteEntry(mem.o, key)), store |-> store]

HasPrefix(key, prefix) == StartsWithAt(key, 1, prefix)

\* StorageManager.clear(); fault: window.storage.list or a delete throws,
\* after the keys in `done` were deleted
StorageClear(native, mem, store, fault, done) ==
    IF native
    THEN LET listed == {k \in DOMAIN store : HasPrefix(k, ClearPrefix)}
             gone == IF fault THEN done \cap listed ELSE listed
         IN [ok |-> ~fault, mem |-> mem,
             store |-> [k \in DOMAIN store \ gone |-> store[k]]]
    ELSE [ok |-> TRUE, mem |-> JObj(<<>>), store |-> store]


(***************************************************************************)
(* Content data, as the constructor builds it (initializeAllData).  Only   *)
(* the fields that identify a unit are kept; the texts are left out.       *)
(***************************************************************************)
JArray(items) == [t |-> "array", a |-> items]
JPlain(value) == [t |-> "object", o |-> value]

initializeMonths ==
    JArray(<<
       [id |-> "meskerem", days |-> 30],
       [id |-> "tikimt", days |-> 30],
       [id |-> "hidar", days |-> 30],
       [id |-> "tahsas", days |-> 30],
       [id |-> "tir", days |-> 30],
       [id |-> "yekatit", days |-> 30],
       [id |-> "megabit", days |-> 30],
       [id |-> "miazia", days |-> 30],
       [id |-> "ginbot", days |-> 30],
       [id |-> "sene", days |-> 30],
       [id |-> "hamle", days |-> 30],
       [id |-> "nehase", days |-> 30],
       [id |-> "pagume", days |-> 5]>>)

initializeHolyDays ==
    JArray(<<
       [month |-> "meskerem", day |-> 1], [month |-> "meskerem", day |-> 17],
       [month |-> "tahsas", day |-> 29], [month |-> "tir", day |-> 11],
       [month |-> "nehase", day |-> 16]>>)

initializeMinistryEvents ==
    JArray(<<
       [month |-> "tir", day |-> 4], [month |-> "meskerem", day |-> 1],
       [month |-> "megabit", day |-> 1], [month |-> "nehase", day |-> 30]>>)

\* an object: its entries in the order of the literal
initializeChronologicalPlan ==
    JPlain(<<
       [k |-> "meskerem", v |-> [weeks |-> 4, weeklyBreakdown |->
            <<[week |-> 1], [week |-> 2], [week |-> 3], [week |-> 4]>>]],
       [k |-> "tikimt", v |-> [weeks |-> 4, weeklyBreakdown |->
            <<[week |-> 5], [week |-> 6], [week |-> 7], [week |-> 8]>>]],
       [k |-> "hidar", v |-> [weeks |-> 4, weeklyBreakdown |->
            <<[week |-> 9], [week |-> 10], [week |-> 11], [week |-> 12]>>]],
       [k |-> "tahsas", v |-> [weeks |-> 4, weeklyBreakdown |->
            <<[week |-> 13], [week |-> 14], [week |-> 15], [week |-> 16]>>]],
       [k |-> "tir", v |-> [weeks |-> 4, weeklyBreakdown |->
            <<[week |-> 17], [week |-> 18], [week |-> 19], [week |-> 20]>>]],
       [k |-> "yekatit", v |-> [weeks |-> 4, weeklyBreakdown |->
            <<[week |-> 21], [week |-> 22], [week |-> 23], [week |-> 24]>>]],
       [k |-> "megabit", v |-> [weeks |-> 4, weeklyBreakdown |->
            <<[week |-> 25], [week |-> 26], [week |-> 27], [week |-> 28]>>]],
       [k |-> "miazia", v |-> [weeks |-> 4, weeklyBreakdown |->
            <<[week |-> 29], [week |-> 30], [week |-> 31], [week |-> 32]>>]],
       [k |-> "ginbot", v |-> [weeks |-> 4, weeklyBreakdown |->
            <<[week |-> 33], [week |-> 34], [week |-> 35], [week |-> 36]>>]],
       [k |-> "sene", v |-> [weeks |-> 4, weeklyBreakdown |->
            <<[week |-> 37], [week |-> 38], [week |-> 39], [week |-> 40]>>]],
       [k |-> "hamle", v |-> [weeks |-> 4, weeklyBreakdown |->
            <<[week |-> 41], [week |-> 42], [week |-> 43], [week |-> 44]>>]],
       [k |-> "nehase", v |-> [weeks |-> 4, weeklyBreakdown |->
            <<[week |-> 45], [week |-> 46], [week |-> 47], [week |-> 48]>>]],
       [k |-> "pagume", v |-> [weeks |-> 1, weeklyBreakdown |-> <<[week |-> 49]>>]]>>)

initializeNT90Plan ==
    JArray(<<
       [days |-> "1-9", dailyBreakdown |-> <<
            [day |-> 1], [day |-> 2], [day |-> 3], [day |-> 4], [day |-> 5],
            [day |-> 6], [day |-> 7], [day |-> 8], [day |-> 9]>>],
       [days |-> "10-15", dailyBreakdown |-> <<
            [day |-> 10], [day |-> 11], [day |-> 12], [day |-> 13], [day |-> 14],
            [day |-> 15]>>],
       [days |-> "16-23", dailyBreakdown |-> <<
            [day |-> 16], [day |-> 17], [day |-> 18], [day |-> 19], [day |-> 20],
            [day |-> 21], [day |-> 22], [day |-> 23]>>],
       [days |-> "24-30", dailyBreakdown |-> <<
            [day |-> 24], [day |-> 25], [day |-> 26], [day |-> 27], [day |-> 28],
            [day |-> 29], [day |-> 30]>>],
       [days |-> "31-45", dailyBreakdown |-> <<
            [day |-> 31], [day |-> 32], [day |-> 33], [day |-> 34], [day |-> 35],
            [day |-> 36], [day |-> 37], [day |-> 38], [day |-> 39], [day |-> 40]>>],
       [days |-> "46-60", dailyBreakdown |-> <<
            [day |-> 46], [day |-> 47], [day |-> 48], [day |-> 49], [day |-> 50],
            [day |-> 51], [day |-> 52], [day |-> 53], [day |-> 54], [day |-> 55],
            [day |-> 56], [day |-> 57], [day |-> 58]>>],
       [days |-> "61-75", dailyBreakdown |-> <<
            [day |-> 61], [day |-> 62], [day |-> 63], [day |-> 64], [day |-> 65],
            [day |-> 66], [day |-> 67], [day |-> 68], [day |-> 69], [day |-> 70],
            [day |-> 71], [day |-> 72], [day |-> 73], [day |-> 74], [day |-> 75]>>],
       [days |-> "76-90", dailyBreakdown |-> <<
            [day |-> 76], [day |-> 77], [day |-> 78], [day |-> 79], [day |-> 80],
            [day |-> 81], [day |-> 82], [day |-> 83], [day |-> 84], [day |-> 85],
            [day |-> 86], [day |-> 87], [day |-> 88], [day |-> 89], [day |-> 90]>>]>>)

initializeDiscipleshipWeeks ==
    JArray([i \in 1..16 |-> [week |-> i]])


(***************************************************************************)
(* Reading identifiers, as the render methods build them                   *)
(***************************************************************************)
\* renderWeekCard: `chrono-${monthId}-${week.week}`
WeekCardId(monthId, week) == "chrono-" \o monthId \o "-" \o ToString(week.week)

\* renderNTSection: `nt90-${idx}`, idx the section's array index from 0
NTSectionId(idx) == "nt90-" \o ToString(idx)

\* variant of renderNTDay that leaves the day number out
NTDayIdOfSection(sectionId, day) == sectionId \o "-day"

\* renderNTDay: `${sectionId}-day-${day.day}`
NTDayId(sectionId, day) == sectionId \o "-day-" \o ToString(day.day)

\* renderDiscipleshipWeek: `disc-${week.week}`
DiscipleshipWeekId(week) == "disc-" \o ToString(week.week)

\* the units the three plans render, named by their place in the content
ChronoUnits(plan) ==
    UNION {{[kind |-> "week", i |-> i, j |-> j] :
                j \in DOMAIN plan.o[i].v.weeklyBreakdown} : i \in DOMAIN plan.o}
SectionUnits(nt) == {[kind |-> "section", i |-> i, j |-> 0] : i \in DOMAIN nt.a}
DayUnits(nt) ==
    UNION {{[kind |-> "day", i |-> i, j |-> j] :
                j \in DOMAIN nt.a[i].dailyBreakdown} : i \in DOMAIN nt.a}
DiscipleshipUnits(disc) == {[kind |-> "disc", i |-> i, j |-> 0] : i \in DOMAIN disc.a}

ReadingUnits(plan, nt, disc) ==
    ChronoUnits(plan) \cup SectionUnits(nt) \cup DayUnits(nt) \cup DiscipleshipUnits(disc)

\* the data-reading attribute the render methods give a unit's button
UnitId(plan, nt, disc, u) ==
    CASE u.kind = "week" ->
           WeekCardId(plan.o[u.i].k, plan.o[u.i].v.weeklyBreakdown[u.j])
      [] u.kind = "section" -> NTSectionId(u.i - 1)
      [] u.kind = "day" -> NTDayId(NTSectionId(u.i - 1), nt.a[u.i].dailyBreakdown[u.j])
      [] OTHER -> DiscipleshipWeekId(disc.a[u.i])

\* variant of getTotalReadings that counts the months
CountMonths(plan) == Len(plan.o)

\* getTotalReadings()
getTotalReadings(plan) ==
    LET RECURSIVE Sum(_)
        Sum(entries) ==
            IF entries = <<>> THEN 0 ELSE Head(entries).v.weeks + Sum(Tail(entries))
    IN Sum(plan.o)

(***************************************************************************)
(* The planner: defaults, setState, the debounced save                     *)
(***************************************************************************)
\* variant of the default state with the five fields of the record only
FiveFieldState ==
    JObj(<<[k |-> "activeTab", v |-> JStr("calendar")],
           [k |-> "selectedMonth", v |-> JStr("meskerem")],
           [k |-> "selectedPlan", v |-> JStr("chronological")],
           [k |-> "expandedWeeks", v |-> JObj(<<>>)],
           [k |-> "completedReadings", v |-> JObj(<<>>)]>>)

DefaultState ==
    JObj(<<[k |-> "activeTab", v |-> JStr("calendar")],
           [k |-> "selectedMonth", v |-> JStr("meskerem")],
           [k |-> "selectedPlan", v |-> JStr("chronological")],
           [k |-> "expandedWeeks", v |-> JObj(<<>>)],
           [k |-> "completedReadings", v |-> JObj(<<>>)],
           [k |-> "showStats", v |-> JBool(FALSE)],
           [k |-> "darkMode", v |-> JBool(FALSE)],
           [k |-> "reminderTime", v |-> JStr("07:00")]>>)

DebounceWait == 500
SwipeThreshold == 50
StreakCap == 30
StreakStep == 7

NoTimer == [handle |-> FALSE, pending |-> FALSE, elapsed |-> 0]
NoMessage == [type |-> "none", text |-> ""]
SuccessMessage(text) == [type |-> "success", text |-> text]
ErrorMessage(text) == [type |-> "error", text |-> text]
NoWrite == [key |-> "", value |-> JUndefined, ok |-> FALSE, at |-> 0, n |-> 0]
NoCall == [op |-> "none", key |-> "", arg |-> JUndefined, fault |-> FALSE,
           result |-> JUndefined]

\* variant of the merge in which the current fields win
MergeReversed(current, newState) == ObjectSpread(newState, current)

\* this.state = { ...this.state, ...newState }
MergeState(current, newState) == ObjectSpread(current, newState)

\* variant of saveStateDebounced that starts a timeout and clears none: the
\* earlier timeout still fires on its own schedule
RestartWithoutClear(timer) ==
    [handle |-> TRUE, pending |-> TRUE, elapsed |-> IF timer.pending THEN timer.elapsed ELSE 0]

\* saveStateDebounced: clear the pending timeout, start a new one
SaveStateDebounced(timer) == [handle |-> TRUE, pending |-> TRUE, elapsed |-> 0]

\* variant of toggleReading that starts from an empty object, not from a copy
ToggledAlone(completedReadings, readingId) ==
    JObj(<<[k |-> readingId, v |-> JBool(~Truthy(GetProp(completedReadings, readingId)))]>>)

\* toggleReading: { ...completedReadings } with the flag of readingId negated
ToggledReadings(completedReadings, readingId) ==
    LET copy == ObjectSpread(completedReadings, JObj(<<>>)) IN
    JObj(PutEntry(copy.o, readingId, JBool(~Truthy(GetProp(copy, readingId)))))

\* the handlers' { ...expandedWeeks } with the flag of weekId negated
ToggledWeeks(expandedWeeks, weekId) ==
    LET copy == ObjectSpread(expandedWeeks, JObj(<<>>)) IN
    JObj(PutEntry(copy.o, weekId, JBool(~Truthy(GetProp(copy, weekId)))))

\* Object.values(completedReadings).filter(Boolean).length
CompletedCount(completedReadings) ==
    Cardinality({i \in DOMAIN SpreadEntries(completedReadings) :
                    Truthy(SpreadEntries(completedReadings)[i].v)})

\* AnalyticsManager.calculateStreak
calculateStreak(completedReadings) ==
    IF CompletedCount(completedReadings) > 0
    THEN IF CompletedCount(completedReadings) < StreakCap
         THEN CompletedCount(completedReadings) ELSE StreakCap
    ELSE 0

\* the message toggleReading leaves on screen
ToggleMessage(current, newCompleted, readingId) ==
    IF Truthy(GetProp(newCompleted, readingId))
    THEN IF calculateStreak(newCompleted) > 0 /\ calculateStreak(newCompleted) % StreakStep = 0
         THEN SuccessMessage(ToString(calculateStreak(newCompleted)) \o " day streak! Keep it up!")
         ELSE SuccessMessage("Progress saved!")
    ELSE current


(***************************************************************************)
(* Export checksum: btoa(JSON.stringify(data)).slice(0, 32)                *)
(***************************************************************************)
\* the characters of codes 32..126 in order; a tab holds the place of the
\* backquote (code 96), which a string of this language cannot hold
AsciiPrintable ==
    " !\"#$%&'()*+,-./0123456789:;<=>?@ABCDEFGHIJKLMNOPQRSTUVWXYZ[\\]^_\tabcdefghijklmnopqrstuvwxyz{|}~"
Base64Alphabet == "ABCDEFGHIJKLMNOPQRSTUVWXYZabcdefghijklmnopqrstuvwxyz0123456789+/"

\* the character code of a printable ASCII character
CharCode(c) == 31 + (CHOOSE i \in 1..Len(AsciiPrintable) : SubSeq(AsciiPrintable, i, i) = c)

Base64Char(n) == SubSeq(Base64Alphabet, n + 1, n + 1)

\* btoa(s), three characters at a time
RECURSIVE Btoa(_)
Btoa(s) ==
    IF s = "" THEN ""
    ELSE LET a == CharCode(CharAt(s, 1))
             b == IF Len(s) >= 2 THEN CharCode(CharAt(s, 2)) ELSE 0
             c == IF Len(s) >= 3 THEN CharCode(CharAt(s, 3)) ELSE 0
             n == a * 65536 + b * 256 + c
         IN Base64Char(n \div 262144)
              \o Base64Char((n \div 4096) % 64)
              \o (IF Len(s) >= 2 THEN Base64Char((n \div 64) % 64) ELSE "=")
              \o (IF Len(s) >= 3 THEN Base64Char(n % 64) ELSE "=")
              \o (IF Len(s) > 3 THEN Btoa(SubSeq(s, 4, Len(s))) ELSE "")

\* s.slice(0, n)
Slice(s, n) == IF Len(s) <= n THEN s ELSE SubSeq(s, 1, n)

\* generateChecksum(data)
generateChecksum(data) == JStr(Slice(Btoa(JSONStringify(data)), 32))

\* variant of validateImportData that does not ask for a version
ValidWithoutVersion(data) ==
    /\ Truthy(data)
    /\ TypeOf(data) = "object"
    /\ Truthy(GetProp(data, "completedReadings"))
    /\ TypeOf(GetProp(data, "completedReadings")) = "object"

\* validateImportData(data), as importProgress tests it
validateImportData(data) ==
    /\ Truthy(data)
    /\ TypeOf(data) = "object"
    /\ Truthy(GetProp(data, "version"))
    /\ Truthy(GetProp(data, "completedReadings"))
    /\ TypeOf(GetProp(data, "completedReadings")) = "object"

\* a || b
OrElse(a, b) == IF Truthy(a) THEN a ELSE b

\* the object importProgress passes to setState
ImportedState(data) ==
    JObj(<<[k |-> "completedReadings",
            v |-> OrElse(GetProp(data, "completedReadings"), JObj(<<>>))],
           [k |-> "selectedMonth",
            v |-> OrElse(GetProp(data, "selectedMonth"), JStr("meskerem"))],
           [k |-> "selectedPlan",
            v |-> OrElse(GetProp(data, "selectedPlan"), JStr("chronological"))],
           [k |-> "expandedWeeks",
            v |-> OrElse(GetProp(data, "expandedWeeks"), JObj(<<>>))]>>)


(***************************************************************************)
(* Inputs                                                                  *)
(***************************************************************************)
MaxOps == 2

TabOrder == <<"calendar", "reading", "discipleship">>
TabInputs == {TabOrder[i] : i \in DOMAIN TabOrder}
MonthInputs == {initializeMonths.a[2].id}
PlanInputs == {"nt90"}
KeyInputs == {"2", "Escape"}
TouchInputs == {0, 60}

\* buttons of the rendered plans that the model clicks
ReadingInputs ==
    {UnitId(initializeChronologicalPlan, initializeNT90Plan, initializeDiscipleshipWeeks, u) :
        u \in {[kind |-> "week", i |-> 1, j |-> 1], [kind |-> "day", i |-> 4, j |-> 1]}}
WeekToggleInputs ==
    {UnitId(initializeChronologicalPlan, initializeNT90Plan, initializeDiscipleshipWeeks, u) :
        u \in {[kind |-> "week", i |-> 1, j |-> 1]}}
RowInputs ==
    {UnitId(initializeChronologicalPlan, initializeNT90Plan, initializeDiscipleshipWeeks, u) :
        u \in {[kind |-> "section", i |-> 4, j |-> 0]}}

\* a record an earlier version may have left in the store
PartialRecord ==
    JObj(<<[k |-> "selectedMonth", v |-> JStr("tikimt")],
           [k |-> "completedReadings",
            v |-> JObj(<<[k |-> "chrono-meskerem-1", v |-> JBool(TRUE)],
                         [k |-> "nt90-3-day-24", v |-> JBool(FALSE)]>>)],
           [k |-> "fontSize", v |-> JNum(14)]>>)
SavedRecords == {PartialRecord}
\* a stored text JSON.parse rejects
CorruptText == "{\"activeTab\":"

\* what window.storage may hold under the state key at startup
InitialStores ==
    {[savedRecord |-> JUndefined, store |-> <<>>]}
    \cup {[savedRecord |-> r, store |-> [k \in {StateKey} |-> JSONStringify(r)]] :
            r \in SavedRecords}

\* import files: the text file.text() yields
ImportFile(completedReadings, checksum) ==
    JSONStringify(JObj(<<[k |-> "completedReadings", v |-> completedReadings],
                         [k |-> "selectedMonth", v |-> JStr("tikimt")],
                         [k |-> "version", v |-> JStr("3.0")],
                         [k |-> "checksum", v |-> checksum]>>))
GoodReadings == JObj(<<[k |-> "nt90-3-day-24", v |-> JBool(TRUE)]>>)
OddReadings == JObj(<<[k |-> "chrono-meskerem-1", v |-> JStr("yes")]>>)
ImportFiles ==
    {ImportFile(GoodReadings, generateChecksum(GoodReadings)),
     ImportFile(OddReadings, generateChecksum(OddReadings)),
     ImportFile(GoodReadings, JStr("0000")),
     "{\"completedReadings\":{}}",
     "{\"version\":\"3.0\",\"completedReadings\":\"all\"}",
     "bible progress"}

\* JSON.parse of each import file, computed once
ParsedImport == [text \in ImportFiles |-> JSONParse(text)]

\* generateChecksum(data.completedReadings), for a file that passed the
\* validation before it
FileChecksum(parsed) ==
    IF parsed.ok /\ validateImportData(parsed.val)
    THEN generateChecksum(GetProp(parsed.val, "completedReadings"))
    ELSE JUndefined

\* the same for each import file, computed once
ImportChecksum == [text \in ImportFiles |-> FileChecksum(ParsedImport[text])]

(***************************************************************************)
(* The planner's run                                                       *)
(***************************************************************************)
NoExport == [text |-> "", state |-> JUndefined, edited |-> FALSE]
NoOverlap == [start |-> JUndefined, calls |-> <<>>, ran |-> 0]

\* the state after `new EthiopianBiblePlanner()`, init() started
Constructed ==
    /\ memoryStorage = JObj(<<>>)
    /\ storage = JStr("StorageManager")
    /\ state = DefaultState
    /\ saveDebounceTimer = NoTimer
    /\ touchStartX = 0
    /\ touchEndX = 0
    /\ ethiopianMonths = initializeMonths
    /\ holyDays = initializeHolyDays
    /\ ministryEvents = initializeMinistryEvents
    /\ chronologicalPlan = initializeChronologicalPlan
    /\ ntIntensive = initializeNT90Plan
    /\ discipleshipWeeks = initializeDiscipleshipWeeks
    /\ message = NoMessage
    /\ listeners = FALSE
    /\ pc = "loadState"
    /\ lastCall = NoCall
    /\ expected = <<>>
    /\ storeReads = 0
    /\ readFault = FALSE
    /\ lastWrite = NoWrite
    /\ lastMutation = JUndefined
    /\ sinceCall = DebounceWait
    /\ burstCalls = 0
    /\ ops = 0
    /\ microtasks = <<>>
    /\ exported = NoExport
    /\ overlap = NoOverlap

NoUnit == [kind |-> "none", i |-> 0, j |-> 0]
NoProbe == [a |-> NoUnit, b |-> NoUnit, ida |-> "", idb |-> "", total |-> 0]

Init ==
    /\ useNativeStorage \in BOOLEAN
    /\ \E s \in InitialStores :
        /\ (~useNativeStorage => s.store = <<>>)
        /\ nativeStore = s.store
        /\ savedRecord = s.savedRecord
    /\ Constructed
    /\ probe = NoProbe

Faults == IF useNativeStorage THEN BOOLEAN ELSE {FALSE}

\* a failed read: window.storage.get throws, or yields nothing, though a
\* record is stored
ReadFaults == IF useNativeStorage /\ StateKey \in DOMAIN nativeStore THEN BOOLEAN ELSE {FALSE}

\* loadState(), the first await of init()
LoadState ==
    /\ pc = "loadState"
    /\ \E fault \in ReadFaults :
        LET savedState == StorageGet(useNativeStorage, memoryStorage, nativeStore,
                                     StateKey, JNull, fault)
        IN /\ state' = IF Truthy(savedState) THEN MergeState(state, savedState) ELSE state
           /\ lastCall' = [op |-> "get", key |-> StateKey, arg |-> JNull,
                           fault |-> fault, result |-> savedState]
           /\ readFault' = fault
    /\ storeReads' = storeReads + 1
    /\ pc' = "setup"
    /\ UNCHANGED <<storeVars, contentVars, storage, saveDebounceTimer, touchStartX,
                   touchEndX, message, listeners, expected, lastWrite, lastMutation,
                   sinceCall, burstCalls, ops, savedRecord, probe, asyncVars>>

\* the rest of init(): icons, menu, first render, the three setup* calls
InitSetup ==
    /\ pc = "setup"
    /\ listeners' = TRUE
    /\ pc' = "ready"
    /\ UNCHANGED <<storeVars, contentVars, storage, state, saveDebounceTimer,
                   touchStartX, touchEndX, message, storeHistory, plannerHistory, probe, asyncVars>>

\* variant in which the listeners are installed by the constructor
ListenersAlways == pc # "unloaded"

\* a user event can reach a handler
ListenersInstalled == listeners /\ pc # "unloaded"

UserEvent ==
    /\ ListenersInstalled
    /\ ops < MaxOps
    /\ ops' = ops + 1

\* setState(newState): merge, restart the save timer (updateUI draws only)
SetState(newState) ==
    /\ state' = MergeState(state, newState)
    /\ saveDebounceTimer' = SaveStateDebounced(saveDebounceTimer)
    /\ lastMutation' = state'
    /\ sinceCall' = 0
    /\ burstCalls' = IF saveDebounceTimer.pending /\ sinceCall < DebounceWait
                     THEN burstCalls + 1 ELSE 1
    /\ lastWrite' = [lastWrite EXCEPT !.n = 0]

Field(name, value) == JObj(<<[k |-> name, v |-> value]>>)

unchangedBySetState ==
    <<storeVars, contentVars, storage, listeners, pc, storeHistory, storeReads,
      readFault,
      savedRecord, probe, asyncVars>>

ClickTab(tab) ==
    /\ UserEvent
    /\ SetState(Field("activeTab", JStr(tab)))
    /\ UNCHANGED <<unchangedBySetState, touchStartX, touchEndX, message>>

ClickMonth(month) ==
    /\ UserEvent
    /\ SetState(Field("selectedMonth", JStr(month)))
    /\ UNCHANGED <<unchangedBySetState, touchStartX, touchEndX, message>>

ClickPlan(plan) ==
    /\ UserEvent
    /\ SetState(Field("selectedPlan", JStr(plan)))
    /\ UNCHANGED <<unchangedBySetState, touchStartX, touchEndX, message>>

ClickStats ==
    /\ UserEvent
    /\ SetState(Field("showStats", JBool(~Truthy(GetProp(state, "showStats")))))
    /\ UNCHANGED <<unchangedBySetState, touchStartX, touchEndX, message>>

ClickWeekToggle(weekId) ==
    /\ UserEvent
    /\ SetState(Field("expandedWeeks",
                      ToggledWeeks(GetProp(state, "expandedWeeks"), weekId)))
    /\ UNCHANGED <<unchangedBySetState, touchStartX, touchEndX, message>>

ClickRow(weekId) ==
    /\ UserEvent
    /\ SetState(Field("expandedWeeks",
                      ToggledWeeks(GetProp(state, "expandedWeeks"), weekId)))
    /\ UNCHANGED <<unchangedBySetState, touchStartX, touchEndX, message>>

\* toggleReading(readingId)
toggleReading(readingId) ==
    /\ LET newCompletedReadings ==
              ToggledReadings(GetProp(state, "completedReadings"), readingId)
       IN /\ SetState(Field("completedReadings", newCompletedReadings))
          /\ message' = ToggleMessage(message, newCompletedReadings, readingId)
    /\ UNCHANGED <<unchangedBySetState, touchStartX, touchEndX>>

\* a click on a complete-toggle button
ToggleReading(readingId) ==
    /\ UserEvent
    /\ toggleReading(readingId)

KeyDown(key) ==
    /\ UserEvent
    /\ IF key \in {"1", "2", "3"}
       THEN SetState(Field("activeTab", JStr(TabOrder[DigitValue(key)])))
       ELSE UNCHANGED <<state, saveDebounceTimer, lastMutation, sinceCall, burstCalls, lastWrite>>
    /\ UNCHANGED <<unchangedBySetState, touchStartX, touchEndX, message>>

TouchStart(x) ==
    /\ UserEvent
    /\ touchStartX' = x
    /\ UNCHANGED <<unchangedBySetState, state, saveDebounceTimer, lastMutation,
                   sinceCall, burstCalls, lastWrite, touchEndX, message>>

TabIndex(tab) ==
    IF \E i \in DOMAIN TabOrder : TabOrder[i] = tab
    THEN (CHOOSE i \in DOMAIN TabOrder : TabOrder[i] = tab) - 1
    ELSE -1

Abs(n) == IF n < 0 THEN -n ELSE n

\* handleSwipe(): the tab to switch to, or "" for none
SwipeTarget(startX, endX, activeTab) ==
    LET diff == startX - endX
        currentIndex == IF activeTab.t = "string" THEN TabIndex(activeTab.s) ELSE -1
    IN IF Abs(diff) < SwipeThreshold THEN ""
       ELSE IF diff > 0 /\ currentIndex < Len(TabOrder) - 1 THEN TabOrder[currentIndex + 2]
       ELSE IF diff < 0 /\ currentIndex > 0 THEN TabOrder[currentIndex]
       ELSE ""

TouchEnd(x) ==
    /\ UserEvent
    /\ touchEndX' = x
    /\ IF SwipeTarget(touchStartX, x, GetProp(state, "activeTab")) # ""
       THEN SetState(Field("activeTab",
                JStr(SwipeTarget(touchStartX, x, GetProp(state, "activeTab")))))
       ELSE UNCHANGED <<state, saveDebounceTimer, lastMutation, sinceCall, burstCalls, lastWrite>>
    /\ UNCHANGED <<unchangedBySetState, touchStartX, message>>

\* importProgress(file), the file's text parsed; checksum: generateChecksum of
\* its completedReadings; confirmed: the answer to `Import anyway?`
importProgress(parsed, checksum, confirmed) ==
    /\ LET data == parsed.val
       IN IF ~parsed.ok \/ ~validateImportData(data)
          THEN /\ message' = ErrorMessage("Import failed. Please check the file.")
               /\ UNCHANGED <<state, saveDebounceTimer, lastMutation, sinceCall, burstCalls, lastWrite>>
          ELSE IF GetProp(data, "checksum") # checksum
                  /\ ~confirmed
          THEN UNCHANGED <<state, saveDebounceTimer, lastMutation, sinceCall, burstCalls, lastWrite,
                           message>>
          ELSE /\ SetState(ImportedState(data))
               /\ message' = SuccessMessage("Progress imported successfully!")
    /\ UNCHANGED <<unchangedBySetState, touchStartX, touchEndX>>

\* the user picks a file to import
ImportProgress(text, confirmed) ==
    /\ UserEvent
    /\ importProgress(ParsedImport[text], ImportChecksum[text], confirmed)


Min(a, b) == IF a < b THEN a ELSE b

TickInputs == {250}

\* time passes: d ms more on the pending timeout and since the last setState
Tick(d) ==
    /\ pc # "unloaded"
    /\ \/ sinceCall < DebounceWait
       \/ saveDebounceTimer.pending /\ saveDebounceTimer.elapsed < DebounceWait
    /\ sinceCall' = Min(sinceCall + d, DebounceWait)
    /\ saveDebounceTimer' =
          IF saveDebounceTimer.pending
          THEN [saveDebounceTimer EXCEPT !.elapsed = Min(@ + d, DebounceWait)]
          ELSE saveDebounceTimer
    /\ UNCHANGED <<storeVars, contentVars, storage, state, touchStartX, touchEndX,
                   message, listeners, pc, storeHistory, storeReads, readFault, lastWrite,
                   lastMutation, burstCalls, ops, savedRecord, probe, asyncVars>>

\* the timeout saveStateDebounced started is due
TimerDue(timer) == timer.pending /\ timer.elapsed >= DebounceWait

\* variant of the save callback that shows nothing
KeepMessage(current, success) == current

\* the message the save callback leaves on screen
SaveMessage(current, success) ==
    IF ~success THEN ErrorMessage("Failed to save progress") ELSE current

\* the callback of saveStateDebounced: storage.set(key, this.state)
SaveTimerFire ==
    /\ pc # "unloaded"
    /\ TimerDue(saveDebounceTimer)
    /\ \E fault \in Faults :
        LET r == StorageSet(useNativeStorage, memoryStorage, nativeStore,
                            StateKey, state, fault)
        IN /\ memoryStorage' = r.mem
           /\ nativeStore' = r.store
           /\ message' = SaveMessage(message, r.ok)
           /\ lastCall' = [op |-> "set", key |-> StateKey, arg |-> state,
                           fault |-> fault, result |-> JBool(r.ok)]
           /\ lastWrite' = [key |-> StateKey, value |-> state, ok |-> r.ok,
                            at |-> sinceCall, n |-> lastWrite.n + 1]
    /\ saveDebounceTimer' = [saveDebounceTimer EXCEPT !.pending = FALSE]
    /\ UNCHANGED <<useNativeStorage, contentVars, storage, state, touchStartX,
                   touchEndX, listeners, pc, expected, storeReads, readFault, lastMutation,
                   sinceCall, burstCalls, ops, savedRecord, probe, asyncVars>>

\* the timeout of UIManager.showMessage: clearMessage()
MessageTimeout ==
    /\ pc # "unloaded"
    /\ message # NoMessage
    /\ message' = NoMessage
    /\ UNCHANGED <<storeVars, contentVars, storage, state, saveDebounceTimer,
                   touchStartX, touchEndX, listeners, pc, storeHistory,
                   plannerHistory, probe, asyncVars>>

\* variant of destroy() that clears every content field
ClearedContent(content) == <<JNull, JNull, JNull, JNull, JNull, JNull>>

\* the content fields as destroy() leaves them
DestroyedContent(content) ==
    <<content[1], content[2], content[3], JNull, JNull, JNull>>

\* beforeunload: destroy(), and the page is gone
Destroy ==
    /\ pc # "unloaded"
    /\ saveDebounceTimer' = NoTimer
    /\ message' = NoMessage
    /\ storage' = JNull
    /\ state' = JNull
    /\ ethiopianMonths' = DestroyedContent(contentVars)[1]
    /\ holyDays' = DestroyedContent(contentVars)[2]
    /\ ministryEvents' = DestroyedContent(contentVars)[3]
    /\ chronologicalPlan' = DestroyedContent(contentVars)[4]
    /\ ntIntensive' = DestroyedContent(contentVars)[5]
    /\ discipleshipWeeks' = DestroyedContent(contentVars)[6]
    /\ pc' = "unloaded"
    /\ UNCHANGED <<storeVars, touchStartX, touchEndX, listeners, storeHistory,
                   plannerHistory, probe, asyncVars>>

Next ==
    \/ LoadState
    \/ InitSetup
    \/ \E tab \in TabInputs : ClickTab(tab)
    \/ \E month \in MonthInputs : ClickMonth(month)
    \/ \E plan \in PlanInputs : ClickPlan(plan)
    \/ ClickStats
    \/ \E weekId \in WeekToggleInputs : ClickWeekToggle(weekId)
    \/ \E weekId \in RowInputs : ClickRow(weekId)
    \/ \E readingId \in ReadingInputs : ToggleReading(readingId)
    \/ \E key \in KeyInputs : KeyDown(key)
    \/ \E x \in TouchInputs : TouchStart(x)
    \/ \E x \in TouchInputs : TouchEnd(x)
    \/ \E text \in ImportFiles, confirmed \in BOOLEAN : ImportProgress(text, confirmed)
    \/ \E d \in TickInputs : Tick(d)
    \/ SaveTimerFire
    \/ MessageTimeout
    \/ Destroy

Spec == Init /\ [][Next]_vars


(***************************************************************************)
(* Calls that overlap: setState and toggleReading are async, and a caller  *)
(* that does not await them (every handler) starts the next call while the *)
(* first is suspended at its await.  A call runs to its first await when   *)
(* it is made; what follows the await is a microtask, run when the task's  *)
(* own code has ended and before any timer or event.                       *)
(***************************************************************************)
MaxCalls == 2

\* variant in which a call sees the state as it was when the task began
StateAtStart(current, atStart) == atStart

\* this.state as a call reads it, before its first await: the calls made
\* earlier in the task have assigned it already
StateSeen(current, atStart) == current

\* the calls a task makes: a plain setState, or a copy-flip-setState of one
\* flag of completedReadings (toggleReading) or expandedWeeks (the handlers)
CallInputs ==
    {[field |-> "activeTab", id |-> "", value |-> JStr("reading")],
     [field |-> "selectedPlan", id |-> "", value |-> JStr("nt90")]}
    \cup {[field |-> "completedReadings", id |-> r, value |-> JUndefined] : r \in ReadingInputs}
    \cup {[field |-> "expandedWeeks", id |-> w, value |-> JUndefined] :
            w \in WeekToggleInputs \cup RowInputs}

\* the argument the call passes to setState
CallState(call, seen) ==
    IF call.id = "" THEN Field(call.field, call.value)
    ELSE IF call.field = "completedReadings"
         THEN Field(call.field, ToggledReadings(GetProp(seen, call.field), call.id))
         ELSE Field(call.field, ToggledWeeks(GetProp(seen, call.field), call.id))

\* what is left of the call behind its await: updateUI() of setState, and for
\* toggleReading the message, which waits for setState to return
Continuation(call, newState) ==
    [op |-> "updateUI",
     readingId |-> IF call.field = "completedReadings" THEN call.id ELSE "",
     completed |-> call.field = "completedReadings"
                   /\ Truthy(GetProp(GetProp(newState, call.field), call.id))]

\* a call is made: by a handler when the page is idle, or by the code of the
\* running task after the calls it made already
StartCall(call) ==
    /\ ListenersInstalled
    /\ ops < MaxCalls
    /\ microtasks = <<>> \/ overlap.ran = 0
    /\ ops' = ops + 1
    /\ LET atStart == IF microtasks = <<>> THEN state ELSE overlap.start
           newState == CallState(call, StateSeen(state, atStart))
       IN /\ SetState(newState)
          /\ microtasks' = Append(microtasks, Continuation(call, newState))
          /\ overlap' = [start |-> atStart,
                         calls |-> IF microtasks = <<>> THEN <<call>>
                                   ELSE Append(overlap.calls, call),
                         ran |-> 0]
    /\ UNCHANGED <<storeVars, contentVars, storage, listeners, pc, storeHistory,
                   storeReads, readFault, savedRecord, probe, exported, touchStartX,
                   touchEndX, message>>

\* the message toggleReading leaves once setState has returned:
\* newCompletedReadings is the call's own copy, the streak is read from this.state
ResumedMessage(current, completed, completedReadings) ==
    IF completed
    THEN IF calculateStreak(completedReadings) > 0
            /\ calculateStreak(completedReadings) % StreakStep = 0
         THEN SuccessMessage(ToString(calculateStreak(completedReadings))
                                \o " day streak! Keep it up!")
         ELSE SuccessMessage("Progress saved!")
    ELSE current

\* the task's code has ended: the oldest continuation runs
RunMicrotask ==
    /\ pc # "unloaded"
    /\ microtasks # <<>>
    /\ LET task == Head(microtasks) IN
       IF task.op = "updateUI"
       THEN /\ microtasks' =
                  IF task.readingId = "" THEN Tail(microtasks)
                  ELSE Append(Tail(microtasks), [task EXCEPT !.op = "toggleReading"])
            /\ UNCHANGED message
       ELSE /\ microtasks' = Tail(microtasks)
            /\ message' = ResumedMessage(message, task.completed,
                                         GetProp(state, "completedReadings"))
    /\ overlap' = [overlap EXCEPT !.ran = @ + 1]
    /\ UNCHANGED <<storeVars, contentVars, storage, state, saveDebounceTimer,
                   touchStartX, touchEndX, listeners, pc, storeHistory,
                   plannerHistory, probe, exported>>

\* no code is running and no continuation is queued: timers may fire
Idle == microtasks = <<>>

OverlapNext ==
    \/ LoadState
    \/ InitSetup
    \/ \E call \in CallInputs : StartCall(call)
    \/ RunMicrotask
    \/ \E d \in TickInputs : Idle /\ Tick(d)
    \/ Idle /\ SaveTimerFire
    \/ Idle /\ MessageTimeout

OverlapSpec == Init /\ [][OverlapNext]_vars


(***************************************************************************)
(* Progress: the user marks the readings one after another, in the order   *)
(* the plans show them, and updateProgress computes the figures shown.     *)
(***************************************************************************)
MaxMarked == 52

RECURSIVE Flatten(_)
Flatten(seqs) == IF seqs = <<>> THEN <<>> ELSE Head(seqs) \o Flatten(Tail(seqs))

\* the data-reading attributes of the complete-toggle buttons, in render order
RenderedIds(plan, nt, disc) ==
    Flatten([i \in DOMAIN plan.o |->
                [j \in DOMAIN plan.o[i].v.weeklyBreakdown |->
                    WeekCardId(plan.o[i].k, plan.o[i].v.weeklyBreakdown[j])]])
    \o Flatten([i \in DOMAIN nt.a |->
                <<NTSectionId(i - 1)>> \o
                [j \in DOMAIN nt.a[i].dailyBreakdown |->
                    NTDayId(NTSectionId(i - 1), nt.a[i].dailyBreakdown[j])]])
    \o [i \in DOMAIN disc.a |-> DiscipleshipWeekId(disc.a[i])]

\* Math.round(100 * completed / total), total positive
RoundedPercent(completed, total) == (200 * completed + total) \div (2 * total)

\* AnalyticsManager.getProgressInsights(completedReadings, totalReadings)
getProgressInsights(completedReadings, totalReadings) ==
    [percentComplete |-> RoundedPercent(CompletedCount(completedReadings), totalReadings),
     readingsCompleted |-> CompletedCount(completedReadings),
     readingsRemaining |-> totalReadings - CompletedCount(completedReadings),
     currentStreak |-> calculateStreak(completedReadings),
     totalReadings |-> totalReadings]

\* the insights updateProgress() puts on screen
updateProgress ==
    getProgressInsights(GetProp(state, "completedReadings"),
                        getTotalReadings(chronologicalPlan))

\* a click on the complete-toggle of the next reading not yet clicked
MarkNext ==
    /\ ListenersInstalled
    /\ ops < MaxMarked
    /\ ops' = ops + 1
    /\ toggleReading(RenderedIds(chronologicalPlan, ntIntensive, discipleshipWeeks)[ops + 1])

\* the clicks follow one another in less than the debounce wait
ProgressNext ==
    \/ LoadState
    \/ InitSetup
    \/ MarkNext
    \/ MessageTimeout

ProgressSpec == Init /\ [][ProgressNext]_vars


(***************************************************************************)
(* Export and import: exportProgress hands a file to the browser, the user *)
(* keeps it, perhaps edits it, and gives it to importProgress later.       *)
(***************************************************************************)
RECURSIVE PrettyValue(_, _)
RECURSIVE PrettyMembers(_, _)
PrettyMembers(entries, pad) ==
    pad \o QuoteString(Head(entries).k) \o ": " \o PrettyValue(Head(entries).v, pad)
        \o (IF Tail(entries) = <<>> THEN "" ELSE ",\n" \o PrettyMembers(Tail(entries), pad))

PrettyValue(x, pad) ==
    IF x.t = "object" /\ x.o # <<>>
    THEN "{\n" \o PrettyMembers(x.o, pad \o "  ") \o "\n" \o pad \o "}"
    ELSE JSONStringify(x)

\* JSON.stringify(data, null, 2)
JSONStringifyPretty(x) == PrettyValue(x, "")

\* new Date().toISOString()
ExportTime == JStr("2026-01-01T00:00:00.000Z")

\* variant of the export data whose checksum is taken over the whole state
ExportDataStateChecksum(st) ==
    JObj(<<[k |-> "completedReadings", v |-> GetProp(st, "completedReadings")],
           [k |-> "selectedMonth", v |-> GetProp(st, "selectedMonth")],
           [k |-> "selectedPlan", v |-> GetProp(st, "selectedPlan")],
           [k |-> "expandedWeeks", v |-> GetProp(st, "expandedWeeks")],
           [k |-> "timestamp", v |-> ExportTime],
           [k |-> "version", v |-> JStr("3.0")],
           [k |-> "checksum", v |-> generateChecksum(st)]>>)

\* the data object exportProgress builds
ExportData(st) ==
    JObj(<<[k |-> "completedReadings", v |-> GetProp(st, "completedReadings")],
           [k |-> "selectedMonth", v |-> GetProp(st, "selectedMonth")],
           [k |-> "selectedPlan", v |-> GetProp(st, "selectedPlan")],
           [k |-> "expandedWeeks", v |-> GetProp(st, "expandedWeeks")],
           [k |-> "timestamp", v |-> ExportTime],
           [k |-> "version", v |-> JStr("3.0")],
           [k |-> "checksum", v |-> generateChecksum(GetProp(st, "completedReadings"))]>>)

\* exportProgress(): the file is downloaded
ExportProgress ==
    /\ ListenersInstalled
    /\ exported' = [text |-> JSONStringifyPretty(ExportData(state)), state |-> state,
                    edited |-> FALSE]
    /\ message' = SuccessMessage("Progress exported successfully!")
    /\ UNCHANGED <<storeVars, contentVars, storage, state, saveDebounceTimer,
                   touchStartX, touchEndX, listeners, pc, storeHistory,
                   plannerHistory, probe, microtasks, overlap>>

\* edits a user may make to the file's completedReadings, the checksum left
\* as it is: one more reading marked at the end, or the first flag negated
EditInputs == {"append", "negate"}
EditedReadings(completedReadings, edit) ==
    IF edit = "append" \/ completedReadings.o = <<>>
    THEN JObj(PutEntry(completedReadings.o, "chrono-pagume-49", JBool(TRUE)))
    ELSE JObj(PutEntry(completedReadings.o, completedReadings.o[1].k,
                       JBool(~Truthy(completedReadings.o[1].v))))

\* the user edits the downloaded file
EditExported(edit) ==
    /\ exported.text # ""
    /\ ~exported.edited
    /\ LET data == JSONParse(exported.text).val
           changed == EditedReadings(GetProp(data, "completedReadings"), edit)
       IN exported' = [exported EXCEPT
                          !.text = JSONStringifyPretty(
                                      JObj(PutEntry(data.o, "completedReadings", changed))),
                          !.edited = TRUE]
    /\ UNCHANGED <<storeVars, contentVars, plannerVars, storeHistory, plannerHistory,
                   probe, microtasks, overlap>>

\* the user gives the downloaded file to importProgress
ImportExported(confirmed) ==
    /\ UserEvent
    /\ exported.text # ""
    /\ importProgress(JSONParse(exported.text), FileChecksum(JSONParse(exported.text)),
                      confirmed)

\* the clicks and the import follow one another in less than the debounce wait
TransferNext ==
    \/ LoadState
    \/ InitSetup
    \/ \E readingId \in ReadingInputs : ToggleReading(readingId)
    \/ \E plan \in PlanInputs : ClickPlan(plan)
    \/ \E weekId \in WeekToggleInputs : ClickWeekToggle(weekId)
    \/ \E tab \in TabInputs : ClickTab(tab)
    \/ ExportProgress
    \/ \E edit \in EditInputs : EditExported(edit)
    \/ \E confirmed \in BOOLEAN : ImportExported(confirmed)

TransferSpec == Init /\ [][TransferNext]_vars


(***************************************************************************)
(* StorageManager on its own: any caller, any key                          *)
(***************************************************************************)
StorageKeys == {StateKey, "notes", "toString"}
StorageValues ==
    {JNull, JNum(12), JStr("say \"hi\""),
     JObj(<<[k |-> "chrono-meskerem-1", v |-> JBool(TRUE)],
            [k |-> "note", v |-> JStr("a\\b")]>>)}
StorageDefaults == {JNull, JStr("default")}

StorageInit ==
    /\ useNativeStorage \in BOOLEAN
    /\ nativeStore \in IF useNativeStorage
                       THEN {<<>>, [k \in {"notes"} |-> CorruptText]}
                       ELSE {<<>>}
    /\ savedRecord = JUndefined
    /\ Constructed
    /\ probe = NoProbe

\* the keys the back end in use holds
HeldKeys(native, mem, store) == IF native THEN DOMAIN store ELSE OwnKeys(mem)

notStorage ==
    <<useNativeStorage, contentVars, plannerVars, plannerHistory, probe, asyncVars>>

\* await storage.get(key, defaultValue)
Get(key, defaultValue) ==
    /\ \E fault \in Faults :
        lastCall' = [op |-> "get", key |-> key, arg |-> defaultValue, fault |-> fault,
                     result |-> StorageGet(useNativeStorage, memoryStorage, nativeStore,
                                           key, defaultValue, fault)]
    /\ UNCHANGED <<memoryStorage, nativeStore, expected, notStorage>>

\* await storage.set(key, value)
Set(key, value) ==
    /\ \E fault \in Faults :
        LET r == StorageSet(useNativeStorage, memoryStorage, nativeStore, key, value, fault)
        IN /\ memoryStorage' = r.mem
           /\ nativeStore' = r.store
           /\ lastCall' = [op |-> "set", key |-> key, arg |-> value, fault |-> fault,
                           result |-> JBool(r.ok)]
           /\ expected' = IF r.ok
                          THEN [k \in DOMAIN expected \cup {key} |->
                                  IF k = key THEN value ELSE expected[k]]
                          ELSE expected
    /\ UNCHANGED notStorage

\* await storage.delete(key)
Delete(key) ==
    /\ \E fault \in Faults :
        LET r == StorageDelete(useNativeStorage, memoryStorage, nativeStore, key, fault)
        IN /\ memoryStorage' = r.mem
           /\ nativeStore' = r.store
           /\ lastCall' = [op |-> "delete", key |-> key, arg |-> JUndefined,
                           fault |-> fault, result |-> JBool(r.ok)]
           /\ expected' = IF r.ok THEN [k \in DOMAIN expected \ {key} |-> expected[k]]
                          ELSE expected
    /\ UNCHANGED notStorage

\* await storage.clear(); done: the keys deleted before a delete threw
Clear ==
    /\ \E fault \in Faults, done \in {{}, {StateKey}} :
        LET r == StorageClear(useNativeStorage, memoryStorage, nativeStore, fault, done)
        IN /\ (~fault => done = {})
           /\ memoryStorage' = r.mem
           /\ nativeStore' = r.store
           /\ lastCall' = [op |-> "clear", key |-> "", arg |-> JUndefined,
                           fault |-> fault, result |-> JBool(r.ok)]
           /\ expected' = [k \in DOMAIN expected \cap
                                   HeldKeys(useNativeStorage, r.mem, r.store) |->
                             expected[k]]
    /\ UNCHANGED notStorage

StorageNext ==
    \/ \E key \in StorageKeys, defaultValue \in StorageDefaults : Get(key, defaultValue)
    \/ \E key \in StorageKeys, value \in StorageValues : Set(key, value)
    \/ \E key \in StorageKeys : Delete(key)
    \/ Clear

StorageSpec == StorageInit /\ [][StorageNext]_vars


(***************************************************************************)
(* The planner's run over a store that may fail, with other code of the    *)
(* page calling the same StorageManager (window.biblePlanner.storage)      *)
(***************************************************************************)
OtherKey == "notes"
OtherValue == JNum(12)
OtherDefault == JStr("default")

FaultNext ==
    \/ LoadState
    \/ InitSetup
    \/ \E readingId \in ReadingInputs : ToggleReading(readingId)
    \/ \E d \in TickInputs : Tick(d)
    \/ SaveTimerFire
    \/ MessageTimeout
    \/ Get(OtherKey, OtherDefault)
    \/ Set(OtherKey, OtherValue)
    \/ Delete(OtherKey)
    \/ Clear

FaultSpec == Init /\ [][FaultNext]_vars


(***************************************************************************)
(* Two StorageManagers given the same calls: one constructed where         *)
(* window.storage exists (its data is nativeStore), one where it does not  *)
(* (its data is memoryStorage).  The store under the first never fails.    *)
(***************************************************************************)
TwinInit ==
    /\ useNativeStorage = TRUE
    /\ nativeStore = <<>>
    /\ savedRecord = JUndefined
    /\ Constructed
    /\ probe = NoProbe

\* get(key, defaultValue) on both
TwinGet(key, defaultValue) ==
    /\ lastCall' = [op |-> "get", key |-> key, arg |-> defaultValue, fault |-> FALSE,
                    result |-> StorageGet(TRUE, JObj(<<>>), nativeStore, key,
                                          defaultValue, FALSE),
                    memory |-> StorageGet(FALSE, memoryStorage, <<>>, key,
                                          defaultValue, FALSE)]
    /\ UNCHANGED <<memoryStorage, nativeStore, expected, notStorage>>

\* set(key, value) on both
TwinSet(key, value) ==
    /\ LET n == StorageSet(TRUE, JObj(<<>>), nativeStore, key, value, FALSE)
           m == StorageSet(FALSE, memoryStorage, <<>>, key, value, FALSE)
       IN /\ nativeStore' = n.store
          /\ memoryStorage' = m.mem
          /\ lastCall' = [op |-> "set", key |-> key, arg |-> value, fault |-> FALSE,
                          result |-> JBool(n.ok), memory |-> JBool(m.ok)]
    /\ UNCHANGED <<expected, notStorage>>

\* delete(key) on both
TwinDelete(key) ==
    /\ LET n == StorageDelete(TRUE, JObj(<<>>), nativeStore, key, FALSE)
           m == StorageDelete(FALSE, memoryStorage, <<>>, key, FALSE)
       IN /\ nativeStore' = n.store
          /\ memoryStorage' = m.mem
          /\ lastCall' = [op |-> "delete", key |-> key, arg |-> JUndefined,
                          fault |-> FALSE, result |-> JBool(n.ok), memory |-> JBool(m.ok)]
    /\ UNCHANGED <<expected, notStorage>>

\* clear() on both
TwinClear ==
    /\ LET n == StorageClear(TRUE, JObj(<<>>), nativeStore, FALSE, {})
           m == StorageClear(FALSE, memoryStorage, <<>>, FALSE, {})
       IN /\ nativeStore' = n.store
          /\ memoryStorage' = m.mem
          /\ lastCall' = [op |-> "clear", key |-> "", arg |-> JUndefined,
                          fault |-> FALSE, result |-> JBool(n.ok), memory |-> JBool(m.ok)]
    /\ UNCHANGED <<expected, notStorage>>

TwinNext ==
    \/ \E key \in StorageKeys, defaultValue \in StorageDefaults : TwinGet(key, defaultValue)
    \/ \E key \in StorageKeys, value \in StorageValues : TwinSet(key, value)
    \/ \E key \in StorageKeys : TwinDelete(key)
    \/ TwinClear

TwinSpec == TwinInit /\ [][TwinNext]_vars


(***************************************************************************)
(* The content data and what the render methods build from it              *)
(***************************************************************************)
ContentInit ==
    /\ useNativeStorage = FALSE
    /\ nativeStore = <<>>
    /\ savedRecord = JUndefined
    /\ Constructed
    /\ probe = NoProbe

notContent ==
    <<storeVars, contentVars, plannerVars, storeHistory, plannerHistory, asyncVars>>

\* the render methods give two units of the plans their identifiers
RenderUnits ==
    /\ probe.ida = ""
    /\ \E a, b \in ReadingUnits(chronologicalPlan, ntIntensive, discipleshipWeeks) :
          probe' = [probe EXCEPT
                      !.a = a, !.b = b,
                      !.ida = UnitId(chronologicalPlan, ntIntensive, discipleshipWeeks, a),
                      !.idb = UnitId(chronologicalPlan, ntIntensive, discipleshipWeeks, b)]
    /\ UNCHANGED notContent

\* updateProgress asks getTotalReadings()
CountReadings ==
    /\ probe.total = 0
    /\ probe' = [probe EXCEPT !.total = getTotalReadings(chronologicalPlan)]
    /\ UNCHANGED notContent

ContentNext ==
    \/ RenderUnits
    \/ CountReadings

ContentSpec == ContentInit /\ [][ContentNext]_vars


(***************************************************************************)
(* Properties                                                              *)
(***************************************************************************)
\* what a later run would read from the store under the state key
StoredState ==
    StorageGet(useNativeStorage, memoryStorage, nativeStore, StateKey, JNull, FALSE)

\* a write the planner made, if any
Written == lastWrite.key # ""

\* C1: every mutation made through setState is written back to the store
\* under 'bible-planner-state': once the page is gone, and no write was
\* refused by the store, the stored record is the state the last setState left.
C1_MutationsWritten ==
    (pc = "unloaded" /\ lastMutation.t = "object" /\ (~Written \/ lastWrite.ok))
        => StoredState = lastMutation

\* C2: the write-back is debounced: a write happens only once the wait has
\* passed since the last setState, at most one write follows a burst, the
\* record written is the state the last setState of the burst left, and while
\* the page is loaded a burst not yet written has its timeout pending.
C2_Debounced ==
    /\ Written => lastWrite.at >= DebounceWait
    /\ lastWrite.n <= 1
    /\ lastWrite.n = 1 => lastWrite.value = lastMutation
    /\ (pc # "unloaded" /\ lastMutation.t = "object" /\ lastWrite.n = 0)
          => saveDebounceTimer.pending

\* two calls less than the wait apart, then the one write
C2_BurstWritten ==
    /\ burstCalls = 2
    /\ lastWrite.n = 1
    /\ lastWrite.ok
    /\ StoredState = lastMutation

\* the record loadState had from the store: none when the read fails, when
\* nothing is stored or when the stored text does not parse
LoadedRecord ==
    IF useNativeStorage /\ ~readFault THEN savedRecord ELSE JUndefined

\* C3: after loadState every field of the saved record has the saved value
\* and every other field its default; with no saved record, or a failed
\* read, the state is the default state.
C3_LoadMerges ==
    pc = "setup" =>
        IF LoadedRecord.t = "object"
        THEN /\ \A key \in OwnKeys(LoadedRecord) :
                    GetProp(state, key) = GetProp(LoadedRecord, key)
             /\ \A key \in OwnKeys(DefaultState) \ OwnKeys(LoadedRecord) :
                    GetProp(state, key) = GetProp(DefaultState, key)
             /\ OwnKeys(state) = OwnKeys(DefaultState) \cup OwnKeys(LoadedRecord)
        ELSE state = DefaultState

\* a record with some of the fields was stored and has been merged
C3_PartialLoaded ==
    /\ pc = "setup"
    /\ LoadedRecord.t = "object"
    /\ ~HasOwn(LoadedRecord, "activeTab")
    /\ GetProp(state, "selectedMonth") = JStr("tikimt")
    /\ GetProp(state, "activeTab") = JStr("calendar")

\* C4: the store is read exactly once per run, by loadState, before the
\* listeners are installed and so before any setState of a user event; no
\* later operation reads it again.
C4_ReadOnce ==
    /\ storeReads <= 1
    /\ listeners => storeReads = 1
    /\ lastMutation.t = "object" => storeReads = 1
    /\ pc = "loadState" => storeReads = 0 /\ ~listeners

\* user events were handled and the state written, after the one read
C4_ReadThenUsed ==
    /\ storeReads = 1
    /\ ops = MaxOps
    /\ lastMutation.t = "object"
    /\ Written

FiveFields ==
    {"activeTab", "selectedMonth", "selectedPlan", "expandedWeeks", "completedReadings"}
SettingsFields == {"showStats", "darkMode", "reminderTime"}

\* C5 as stated: every write uses the key 'bible-planner-state' and the
\* record written has the five fields activeTab, selectedMonth, selectedPlan,
\* expandedWeeks, completedReadings and no other.
C5_FiveFieldsOnly ==
    Written => /\ lastWrite.key = StateKey
               /\ OwnKeys(lastWrite.value) = FiveFields

\* C5, amended: every write uses the key 'bible-planner-state' and the record
\* written is the whole state: the five fields, and also showStats, darkMode
\* and reminderTime, and whatever further field a loaded record brought.
C5_WholeState ==
    Written => /\ lastWrite.key = StateKey
               /\ (lastWrite.n = 1 /\ pc # "unloaded") => lastWrite.value = state
               /\ FiveFields \cup SettingsFields \subseteq OwnKeys(lastWrite.value)
               /\ OwnKeys(lastWrite.value) \subseteq
                    FiveFields \cup SettingsFields \cup OwnKeys(LoadedRecord)

\* a record with the settings fields has reached the store
C5_SettingsStored ==
    /\ Written
    /\ lastWrite.ok
    /\ StoredState.t = "object"
    /\ SettingsFields \subseteq OwnKeys(StoredState)

\* C6: every value of state.completedReadings is a boolean, whatever
\* loadState, toggleReading and importProgress did.
C6_FlagsBoolean ==
    state.t = "object" =>
        \A i \in DOMAIN SpreadEntries(GetProp(state, "completedReadings")) :
            SpreadEntries(GetProp(state, "completedReadings"))[i].v.t = "boolean"

\* the content fields as the constructor built them
BuiltContent ==
    <<initializeMonths, initializeHolyDays, initializeMinistryEvents,
      initializeChronologicalPlan, initializeNT90Plan, initializeDiscipleshipWeeks>>

\* C7 as stated: after construction no operation a user can reach changes
\* ethiopianMonths, holyDays, ministryEvents, chronologicalPlan, ntIntensive
\* or discipleshipWeeks.
C7_ContentNeverChanges == contentVars = BuiltContent

\* C7, amended: while the page is loaded no operation changes the content
\* fields; destroy(), run when the page unloads, sets chronologicalPlan,
\* ntIntensive and discipleshipWeeks to null and leaves the other three.
C7_ContentUntilDestroy ==
    /\ pc # "unloaded" => contentVars = BuiltContent
    /\ pc = "unloaded" =>
          /\ <<ethiopianMonths, holyDays, ministryEvents>> =
                <<initializeMonths, initializeHolyDays, initializeMinistryEvents>>
          /\ <<chronologicalPlan, ntIntensive, discipleshipWeeks>> = <<JNull, JNull, JNull>>

\* the page was used, written from, and then unloaded
C7_UsedThenDestroyed ==
    /\ pc = "unloaded"
    /\ ops = MaxOps
    /\ Written
    /\ chronologicalPlan = JNull
    /\ ethiopianMonths = initializeMonths

\* C8: the identifiers built for two different units of the plans (a
\* chronological week, a 90-day section, a 90-day day, a discipleship week)
\* are different.
C8_IdentifiersDistinct ==
    (probe.ida # "" /\ probe.a # probe.b) => probe.ida # probe.idb

\* two days of one 90-day section have been given their identifiers
C8_TwoDaysRendered ==
    /\ probe.ida = "nt90-3-day-24"
    /\ probe.idb = "nt90-3-day-25"
    /\ probe.a.kind = "day"
    /\ probe.a.i = probe.b.i

\* C9: thirteen months with distinct identifiers; the chronological plan has
\* one entry for each month identifier and no other; each entry's weeks count
\* is the length of its weeklyBreakdown; getTotalReadings() is the number of
\* chronological week units.
C9_CalendarAndPlan ==
    LET months == ethiopianMonths.a
        plan == chronologicalPlan.o
    IN /\ Len(months) = 13
       /\ \A i, j \in DOMAIN months : i # j => months[i].id # months[j].id
       /\ \A i, j \in DOMAIN plan : i # j => plan[i].k # plan[j].k
       /\ {plan[i].k : i \in DOMAIN plan} = {months[i].id : i \in DOMAIN months}
       /\ \A i \in DOMAIN plan : plan[i].v.weeks = Len(plan[i].v.weeklyBreakdown)
       /\ probe.total # 0 => probe.total = Cardinality(ChronoUnits(chronologicalPlan))

\* getTotalReadings() has been asked and counted more weeks than months
C9_TotalCounted ==
    /\ probe.total = Cardinality(ChronoUnits(chronologicalPlan))
    /\ probe.total > Len(ethiopianMonths.a)

\* C10: get(key, d) returns the value the last successful set(key, v) left,
\* and d when the key was never set or was deleted since.
C10_RoundTrip ==
    (lastCall.op = "get" /\ ~lastCall.fault) =>
        lastCall.result = IF lastCall.key \in DOMAIN expected
                          THEN expected[lastCall.key]
                          ELSE lastCall.arg

\* what the native store maps a key to, as get would return it
NativeValue(key) == JSONParse(nativeStore[key]).val

\* C11: given the same set, get, delete and clear calls, the native-storage
\* manager (its store never failing) and the in-memory manager return the same
\* results and hold the same key-to-value mapping.
C11_BackEndsAgree ==
    /\ lastCall.op # "none" => lastCall.result = lastCall.memory
    /\ DOMAIN nativeStore = OwnKeys(memoryStorage)
    /\ \A key \in DOMAIN nativeStore \cap OwnKeys(memoryStorage) :
            NativeValue(key) = GetProp(memoryStorage, key)

\* C12: whenever toggleReading shows 'Progress saved!' for a reading, the
\* store already holds a record in which that reading is marked completed.
C12_SavedWhenShown ==
    [][\A readingId \in ReadingInputs :
          (/\ ToggleReading(readingId)
           /\ Truthy(GetProp(GetProp(state', "completedReadings"), readingId))
           /\ message' = SuccessMessage("Progress saved!"))
          => Truthy(GetProp(GetProp(StoredState', "completedReadings"), readingId))]_vars

\* C13: toggleReading(id) flips the completion flag of id only (absent or
\* false becomes true, true becomes false); the flag of every other reading
\* identifier and the fields activeTab, selectedMonth, selectedPlan and
\* expandedWeeks are unchanged.
C13_ToggleFlipsOne ==
    [][\A readingId \in ReadingInputs :
          ToggleReading(readingId) =>
            LET before == GetProp(state, "completedReadings")
                after == GetProp(state', "completedReadings")
            IN /\ GetProp(after, readingId) = JBool(~Truthy(GetProp(before, readingId)))
               /\ \A other \in (OwnKeys(before) \cup OwnKeys(after)) \ {readingId} :
                      GetProp(after, other) = GetProp(before, other)
               /\ \A name \in {"activeTab", "selectedMonth", "selectedPlan", "expandedWeeks"} :
                      GetProp(state', name) = GetProp(state, name)]_vars

\* a reading was toggled while another one was marked: both are marked now
C13_BothMarked ==
    /\ pc = "ready"
    /\ ops >= 1
    /\ lastMutation = state
    /\ \A readingId \in ReadingInputs :
          GetProp(GetProp(state, "completedReadings"), readingId) = JBool(TRUE)

\* the calls of the running task that flipped the flag `id` of `field`
Flips(field, id) ==
    Cardinality({i \in DOMAIN overlap.calls :
                    overlap.calls[i].field = field /\ overlap.calls[i].id = id})

\* every change the task's calls asked for is in `record`: a field set has the
\* value of the last call that set it, a flag flipped has the value the
\* flips give it from where it stood when the task began
ChangesPresent(record) ==
    \A i \in DOMAIN overlap.calls :
        LET call == overlap.calls[i]
            was == Truthy(GetProp(GetProp(overlap.start, call.field), call.id))
        IN IF call.id = ""
           THEN (\A j \in DOMAIN overlap.calls :
                    (j > i /\ overlap.calls[j].id = "") =>
                        overlap.calls[j].field # call.field)
                 => GetProp(record, call.field) = call.value
           ELSE GetProp(GetProp(record, call.field), call.id) =
                    JBool(IF Flips(call.field, call.id) % 2 = 1 THEN ~was ELSE was)

\* C14: no update is lost between overlapping calls: when setState or
\* toggleReading calls are started without awaiting the earlier ones, every
\* change is in the in-memory state, the write is pending until it is made,
\* and the record written, and read back from the store, has every change.
C14_NoUpdateLost ==
    (pc = "ready" /\ overlap.calls # <<>>) =>
        /\ ChangesPresent(state)
        /\ lastWrite.n = 0 => saveDebounceTimer.pending
        /\ lastWrite.n = 1 => ChangesPresent(lastWrite.value)
        /\ (lastWrite.n = 1 /\ lastWrite.ok) => ChangesPresent(StoredState)

\* two readings were toggled by calls that overlapped, and the record with
\* both is in the store
C14_BothStored ==
    /\ Len(overlap.calls) = 2
    /\ overlap.calls[1].field = "completedReadings"
    /\ overlap.calls[2].field = "completedReadings"
    /\ overlap.calls[1].id # overlap.calls[2].id
    /\ microtasks = <<>>
    /\ lastWrite.n = 1
    /\ lastWrite.ok
    /\ \A i \in 1..2 :
          Truthy(GetProp(GetProp(StoredState, "completedReadings"), overlap.calls[i].id))

\* C15: in every reachable state the progress updateProgress computes is
\* within bounds: the completed readings are no more than getTotalReadings(),
\* percentComplete is between 0 and 100 and readingsRemaining is not negative.
C15_ProgressBounded ==
    pc = "ready" =>
        /\ updateProgress.readingsCompleted <= updateProgress.totalReadings
        /\ updateProgress.percentComplete >= 0
        /\ updateProgress.percentComplete <= 100
        /\ updateProgress.readingsRemaining >= 0

\* the first and last day a section's 'days' label names, e.g. '31-45'
LabelDays(label) ==
    LET first == ParseDigits(label, 1, 0)
        last == ParseDigits(label, first.pos + 1, 0)
    IN first.val.n .. last.val.n

\* the days a section's dailyBreakdown lists
ListedDays(section) ==
    {section.dailyBreakdown[j].day : j \in DOMAIN section.dailyBreakdown}

\* C16: in the 90-day plan each section's dailyBreakdown lists exactly the
\* days of the range its 'days' label gives, each once, so that the eight
\* sections together hold every day from 1 to 90 exactly once.
C16_DaysMatchLabels ==
    ntIntensive.t = "array" =>
        LET sections == ntIntensive.a IN
        /\ Len(sections) = 8
        /\ \A i \in DOMAIN sections :
              /\ ListedDays(sections[i]) = LabelDays(sections[i].days)
              /\ Cardinality(ListedDays(sections[i])) = Len(sections[i].dailyBreakdown)
        /\ UNION {ListedDays(sections[i]) : i \in DOMAIN sections} = 1..90
        /\ \A i, j \in DOMAIN sections :
              i # j => ListedDays(sections[i]) \cap ListedDays(sections[j]) = {}

\* C17: importProgress leaves the state as it is and schedules no write when
\* the file is not valid JSON, when it has no version or no object-valued
\* completedReadings, or when its checksum does not match and the user
\* declines; in the first two cases an error message is shown, and no
\* success message.
C17_RejectedImport ==
    [][\A text \in ImportFiles, confirmed \in BOOLEAN :
          ImportProgress(text, confirmed) =>
            LET parsed == ParsedImport[text]
                notJSON == ~parsed.ok
                invalid == /\ parsed.ok
                           /\ \/ GetProp(parsed.val, "version") = JUndefined
                              \/ GetProp(parsed.val, "completedReadings").t # "object"
                declined == /\ parsed.ok
                            /\ ~invalid
                            /\ GetProp(parsed.val, "checksum") # ImportChecksum[text]
                            /\ ~confirmed
            IN /\ (notJSON \/ invalid \/ declined) =>
                     /\ state' = state
                     /\ saveDebounceTimer' = saveDebounceTimer
                     /\ lastMutation' = lastMutation
               /\ (notJSON \/ invalid) =>
                     message' = ErrorMessage("Import failed. Please check the file.")]_vars

\* a file was refused: the error message is up and nothing was changed
C17_Refused ==
    /\ message = ErrorMessage("Import failed. Please check the file.")
    /\ ops >= 1
    /\ lastMutation = JUndefined
    /\ ~saveDebounceTimer.pending
    /\ ~Written

\* the fields exportProgress writes and importProgress sets
TransferredFields == {"completedReadings", "selectedMonth", "selectedPlan", "expandedWeeks"}

\* C18: importing a file exportProgress produced from state S, into any
\* state, is accepted without the corruption confirmation and gives a state
\* whose completedReadings, selectedMonth, selectedPlan and expandedWeeks are
\* those of S, while activeTab and the other fields keep their values.
C18_ExportImportRoundTrip ==
    [][\A confirmed \in BOOLEAN :
          (ImportExported(confirmed) /\ ~exported.edited) =>
            /\ \A name \in TransferredFields :
                  GetProp(state', name) = GetProp(exported.state, name)
            /\ OwnKeys(state') = OwnKeys(state)
            /\ \A name \in OwnKeys(state) \ TransferredFields :
                  GetProp(state', name) = GetProp(state, name)
            /\ message' = SuccessMessage("Progress imported successfully!")]_vars

\* a file exported with readings in it was imported, on another tab
C18_Restored ==
    /\ exported.text # ""
    /\ ~exported.edited
    /\ message = SuccessMessage("Progress imported successfully!")
    /\ lastMutation = state
    /\ GetProp(exported.state, "completedReadings") # JObj(<<>>)
    /\ GetProp(state, "activeTab") # GetProp(exported.state, "activeTab")
    /\ \A name \in TransferredFields : GetProp(state, name) = GetProp(exported.state, name)

\* C19: the checksum detects tampering: when the file's completedReadings is
\* not the one its checksum was computed from, importProgress asks for
\* confirmation before it changes the state, so the state stays as it is when
\* the user declines.
C19_TamperingDetected ==
    [][(/\ ImportExported(FALSE)
        /\ exported.edited
        /\ GetProp(JSONParse(exported.text).val, "completedReadings")
              # GetProp(exported.state, "completedReadings"))
       => (state' = state /\ message' = message)]_vars

\* C20: a failed save is reported and never thrown: when the store fails, get
\* returns the default and set, delete and clear return false; and when the
\* debounced write returns false the message 'Failed to save progress' is
\* shown and the in-memory state keeps the mutation.
C20_FailedSaveReported ==
    /\ [](lastCall.fault =>
            lastCall.result = IF lastCall.op = "get" THEN lastCall.arg ELSE JBool(FALSE))
    /\ [][(SaveTimerFire /\ ~lastWrite'.ok) =>
            /\ message' = ErrorMessage("Failed to save progress")
            /\ state' = state
            /\ state' = lastMutation]_vars

\* the store refused the write of a marked reading: the message is up, the
\* state has the reading and the store has not
C20_SaveFailed ==
    /\ lastWrite.n = 1
    /\ ~lastWrite.ok
    /\ lastCall.op = "set"
    /\ lastCall.fault
    /\ message = ErrorMessage("Failed to save progress")
    /\ state = lastMutation
    /\ \E readingId \in ReadingInputs :
          /\ Truthy(GetProp(GetProp(state, "completedReadings"), readingId))
          /\ ~Truthy(GetProp(GetProp(StoredState, "completedReadings"), readingId))

=============================================================================
